---- MODULE Spec2Model ----
(***************************************************************************)
(* Chatterbox: the queue-mediated relay between a chat platform and the    *)
(* game engine.  The model covers                                          *)
(*   - Chatterbox.connect, the startup sequence        (lib/chatterbox.js) *)
(*   - Chatterbox.getSlack / getTeamInfo, the session cache                *)
(*   - SlashListener, the consumer of the out-queue (lib/slash_listener.js)*)
(*   - SlackListener, the HTTP handlers that feed the in-queue: buttons,   *)
(*     slash commands, the game-start command, payments and team_join      *)
(*     events                                       (lib/slack_listener.js)*)
(* One action is one run of the event loop between two awaits: JavaScript  *)
(* runs such a segment without interleaving.                               *)
(***************************************************************************)
EXTENDS Integers, Sequences, FiniteSets, TLC

\* ---------------------------------------------------------------- bounds

\* Messages the game engine puts on the out-queue.
NumMsgs == 2

\* HTTP requests the platform sends.
NumReqs == 1

\* Times the platform answers name_taken to the creation of a channel during
\* one provisioning.
MaxNameTaken == 1

\* Start values of ackDelay explored by SpecAckDelay: 0, 5, .., 5 * MaxStartSteps.
MaxStartSteps == 5

\* ------------------------------------------------------ program constants

ERROR_NOT_IN_CHANNEL == "channel_not_found"

ERROR_MESSAGE_NOT_FOUND == "message_not_found"

\* A consumer that lets the broker keep two messages unacknowledged.
PrefetchTwo == 1 + 1

\* this.ch.prefetch(1)
PrefetchCount == 1

\* Math.max(0, this.ackDelay - 10)
AckStep == 10

ERROR_CHANNEL_EXISTS == "name_taken"

COMMAND_CHATANDSLASH == "/chatandslash"

CHANNEL_PRIVATEGROUP == "privategroup"

EVENT_TEAM_JOIN == "team_join"

\* process.env.VERIFICATION_TOKEN and process.env.CNS_API_TOKEN
VERIFICATION_TOKEN == "verification-secret"

CNS_API_TOKEN == "cns-secret"

\* JavaScript's undefined, as the value of a field or a variable.
Undefined == "undefined"

\* JavaScript's undefined where an object was expected (decoded after a
\* failed JSON.parse).
NoEnvelope == [undefined |-> TRUE]

Max(a, b) == IF a >= b THEN a ELSE b

\* ------------------------------------------------------------------ data

Msgs == 1..NumMsgs

Reqs == {NumMsgs + i : i \in 1..NumReqs}

\* Everything that can call getSlack: an onConsume invocation (named by its
\* message) or an HTTP handler invocation (named by its request).
Callers == Msgs \cup Reqs

\* Workspaces; Installed are those with a row in the teams table.
Teams == {"T1", "T2"}

Installed == {"T1"}

\* teams.autostart of an installed workspace (a flag, kept as a string so that
\* it can be told from undefined).
AutoStartOf(t) == "true"

\* The five types processQueueMessage dispatches on.
KnownTypes == {"say", "update", "delete", "dm", "dialog"}

\* The types the game engine may send; "emote" stands for any other string.
Types == KnownTypes \cup {"emote"}

\* A decoded Queue Envelope.  The fields besides type and team carry one fixed,
\* distinct value each, so that a call's arguments show which field went where.
Envelope(type, team) ==
    [type |-> type, team |-> team, channel |-> "C1", uid |-> "U1",
     ts |-> "100.1", text |-> "hi", opts |-> "opts",
     triggerId |-> "trig", dialog |-> "dlg"]

Envelopes == {Envelope(ty, tm) : ty \in Types, tm \in Teams \cup {Undefined}}

\* The content of a queue message: the JSON text of an envelope, or bytes that
\* are no JSON.
Malformed == [valid |-> FALSE, env |-> NoEnvelope]

Bodies == {[valid |-> TRUE, env |-> e] : e \in Envelopes} \cup {Malformed}

\* process.env.MODE
Modes == {"dev", "production"}

\* The tokens a request can carry: the two secrets, or anything else.
Tokens == {VERIFICATION_TOKEN, CNS_API_TOKEN, "guess"}

\* The handlers of the HTTP server and what they are asked: a button, a slash
\* command other than the game-start command, the game-start command, a
\* payment, a team_join event, an event of another type.
Kinds == {"button", "slash", "chatandslash", "payment", "team_join", "reaction_added"}

\* Channels a slash command can come from: private groups have ids starting
\* with G, public channels with C.  G1 is the channel of the command when it
\* comes from a private group, G2 another private group.
ChannelIds == {"G1", "C1"}

ChannelNames == {CHANNEL_PRIVATEGROUP, "general"}

\* What getCharacterChannel can find for a user: no row, or a row with the
\* channel of the user's game.
Bindings == {"", "G1", "G2"}

\* The characters table as the game engine left it, for the one user of the
\* model: a workspace without the app has no games.  Nothing here writes it.
Characters ==
    {[t \in Teams |-> IF t \in Installed THEN b ELSE ""] : b \in Bindings}

\* The results of createChannelName: 'game-' and three random bytes in hex.
GameChannelNames == {"game-a1b2c3", "game-d4e5f6"}

\* createResponse.group.id of a created channel.
CreatedChannelId == "G7"

\* The user a request is about, the user's profile, and the bot's own id.
UserId == "U1"

RealName == "Ann"

Email == "ann@example.org"

BotId == "B1"

\* ---------------------------------------------------------------- errors

\* A JavaScript error: its class, its message, and data.error (Undefined when
\* the error has no data).
SyntaxErr == [name |-> "SyntaxError", message |-> "Unexpected token", data |-> Undefined]

NoTeamErr == [name |-> "Error", message |-> "No team id defined.", data |-> Undefined]

InvalidTypeErr == [name |-> "TypeError", message |-> "Invalid message type", data |-> Undefined]

\* rows[0] is undefined when the teams table has no row.
NoRowErr == [name |-> "TypeError", message |-> "Cannot read property 'bot_token' of undefined", data |-> Undefined]

DbErr == [name |-> "Error", message |-> "ECONNREFUSED", data |-> Undefined]

\* An error reported by the chat platform: the session raises it with the
\* platform's code as its message and as data.error, which is what the two
\* classifications of the relay read.
PlatformErr(code) == [name |-> "Error", message |-> code, data |-> code]

\* What a platform operation can answer: ok, or one of the error codes.
ErrorCodes == {ERROR_NOT_IN_CHANNEL, ERROR_MESSAGE_NOT_FOUND, "ratelimited"}

Outcomes == {"ok"} \cup ErrorCodes

\* The ts of the response to postMessage.
ResponseTs == "200.2"

\* ----------------------------------------------------------------- state

VARIABLES
    boot,           \* where Chatterbox.connect stands
    slashCh,        \* SlashListener.ch exists and consumes the out-queue
    slackCh,        \* SlackListener.ch exists
    listening,      \* the HTTP server accepts requests
    startupReports, \* reportError calls made by Chatterbox.connect
    slackClients,   \* Chatterbox.slackClients: team -> session id, 0 = undefined
    sessions,       \* the Slack objects constructed so far, by session id
    gs,             \* the getSlack invocation of each caller
    h,              \* the onConsume invocation of each message
    req,            \* the HTTP handler invocation of each request
    unacked,        \* broker: messages delivered and not acknowledged
    ackLog,         \* broker: the acknowledgments received, in order
    inQueue,        \* broker: the envelopes sent to the in-queue
    ackDelay,       \* SlashListener.ackDelay
    ackStart,       \* the value ackDelay started from
    mode,           \* process.env.MODE
    characters      \* the characters table: team -> channel of the user's game

vars == <<boot, slashCh, slackCh, listening, startupReports, slackClients,
          sessions, gs, h, req, unacked, ackLog, inQueue, ackDelay, ackStart,
          mode, characters>>

\* The keys slackClients is read with: a team id, or undefined.
TeamKeys == Teams \cup {Undefined}

NoErr == [name |-> "none", message |-> "", data |-> Undefined]

\* No getSlack invocation.
GsNone == [pc |-> "none", team |-> Undefined, sid |-> 0, autoStart |-> Undefined]

\* An onConsume invocation that has not started: the message is still queued.
\* slack is the session say / update / delete / dm / dialog got from getSlack
\* (0: none), failure the error caught by processQueueMessage, opResult the
\* platform's answer to the operation.  ops, dms, reports, enq, lost, escaped,
\* getSlacks and acks record what the invocation did: the operations and the
\* direct messages it called, its reportError calls, the envelopes it enqueued,
\* the enqueue promises that rejected, whether an exception left onConsume,
\* its getSlack calls and the acknowledgments of its message.
IdleFrame ==
    [pc |-> "idle", body |-> Malformed, decoded |-> NoEnvelope, stage |-> "none",
     slack |-> 0, failure |-> NoErr, opResult |-> "none",
     timerDelay |-> 0, ops |-> <<>>, dms |-> <<>>, reports |-> <<>>, enq |-> <<>>,
     lost |-> 0, escaped |-> FALSE, getSlacks |-> 0, acks |-> 0]

\* An invocation that is over and whose record was dropped.
GoneFrame == [IdleFrame EXCEPT !.pc = "gone"]

\* An HTTP handler invocation that has not started: the request has not come.
\* kind, token, team, channelId and channelName are the request's content,
\* slack the session the handler got from getSlack (0: none), existing the
\* channel getCharacterChannel found.  calls, enq and lost record what the
\* handler did: the session methods it called with their answers, the
\* envelopes it enqueued, the enqueue calls that threw.
IdleReq ==
    [pc |-> "idle", kind |-> "none", token |-> Undefined, team |-> Undefined,
     channelId |-> Undefined, channelName |-> Undefined, slack |-> 0,
     existing |-> Undefined, calls |-> <<>>, enq |-> <<>>, lost |-> 0]

Init ==
    /\ boot = "start"
    /\ slashCh = FALSE
    /\ slackCh = FALSE
    /\ listening = FALSE
    /\ startupReports = 0
    /\ slackClients = [t \in TeamKeys |-> 0]
    /\ sessions = <<>>
    /\ gs = [c \in Callers |-> GsNone]
    /\ h = [m \in Msgs |-> IdleFrame]
    /\ req = [r \in Reqs |-> IdleReq]
    /\ unacked = {}
    /\ ackLog = <<>>
    /\ inQueue = <<>>
    /\ ackDelay = 0
    /\ ackStart = 0
    /\ mode \in Modes
    /\ characters \in Characters

\* ------------------------------------------- SlashListener: pure segments

\* JSON.parse(message.content.toString())
JSONparse(body) ==
    IF body.valid THEN [threw |-> FALSE, value |-> body.env]
    ELSE [threw |-> TRUE, value |-> NoEnvelope]

\* A processQueueMessage without the test of message.team.
TeamMissingNever(message) == FALSE

\* _.isUndefined(message.team)
TeamMissing(message) == message.team = Undefined

\* get(get(error, 'data', {}), 'error', 'unknown')
ErrorType(error) == IF error.data = Undefined THEN "unknown" ELSE error.data

\* A processQueueMessage that rethrows every error.
IsMessageNotFoundNever(error) == FALSE

\* ERROR_MESSAGE_NOT_FOUND === type
IsMessageNotFound(error) == ERROR_MESSAGE_NOT_FOUND = ErrorType(error)

\* An onConsume that reports every error.
IsNotInChannelNever(error) == FALSE

\* ERROR_NOT_IN_CHANNEL === error.message
IsNotInChannel(error) == ERROR_NOT_IN_CHANNEL = error.message

\* An update that passes channel and ts in the wrong order.
PlatformCallSwapped(message) ==
    CASE message.type = "say" ->
           [op |-> "postMessage", args |-> <<message.channel, message.text, message.opts>>]
      [] message.type = "update" ->
           [op |-> "updateMessage", args |-> <<message.channel, message.ts, message.text, message.opts>>]
      [] message.type = "delete" ->
           [op |-> "deleteMessage", args |-> <<message.ts, message.channel>>]
      [] message.type = "dm" ->
           [op |-> "dm", args |-> <<message.uid, message.text, message.opts>>]
      [] OTHER ->
           [op |-> "dialog", args |-> <<message.triggerId, message.dialog>>]

\* The session method each of say / update / delete / dm / dialog calls, with
\* its arguments.
PlatformCall(message) ==
    CASE message.type = "say" ->
           [op |-> "postMessage", args |-> <<message.channel, message.text, message.opts>>]
      [] message.type = "update" ->
           [op |-> "updateMessage", args |-> <<message.ts, message.channel, message.text, message.opts>>]
      [] message.type = "delete" ->
           [op |-> "deleteMessage", args |-> <<message.ts, message.channel>>]
      [] message.type = "dm" ->
           [op |-> "dm", args |-> <<message.uid, message.text, message.opts>>]
      [] OTHER ->
           [op |-> "dialog", args |-> <<message.triggerId, message.dialog>>]

\* The envelope processQueueMessage enqueues after a say.
AddTimestamp(response, message) ==
    [type |-> "add_timestamp",
     payload |-> [ts |-> response.ts, channel |-> message.channel, teamid |-> message.team]]

\* A reportError(error) call without the envelope, as in Chatterbox.connect.
ReportContextNone(decoded) == NoEnvelope

\* The info onConsume gives reportError: decoded.
ReportContext(decoded) == decoded

\* this.chatterbox.reportError(error, decoded)
Report(f, error) ==
    [f EXCEPT !.reports = Append(@, [error |-> error, info |-> ReportContext(f.decoded)])]

\* finally { setTimeout(() => { this.ackMessage(message); }, this.ackDelay); }
Finally(f) == [f EXCEPT !.pc = "timer", !.timerDelay = ackDelay]

\* An onConsume that sets the timer after the try statement instead of in a
\* finally block: an exception leaving the catch block skips it.
OnConsumeExitNoFinally(f, threw) ==
    IF threw THEN [f EXCEPT !.pc = "abandoned", !.escaped = TRUE]
    ELSE Finally(f)

\* onConsume returns, or an exception leaves its catch block (threw): the
\* finally block runs either way.
OnConsumeExit(f, threw) == [Finally(f) EXCEPT !.escaped = threw]

\* The catch block of onConsume, up to its first await.  Reading decoded.team
\* of an undefined decoded throws inside the catch block.
OnConsumeCatch(f, error) ==
    IF IsNotInChannel(error)
    THEN IF f.decoded = NoEnvelope
         THEN OnConsumeExit(f, TRUE)
         ELSE [f EXCEPT !.pc = "callGetSlack", !.stage = "recover"]
    ELSE OnConsumeExit(Report(f, error), FALSE)

\* The catch block of processQueueMessage.
PQMCatch(f, error) ==
    LET g == [f EXCEPT !.failure = error]
    IN  IF IsMessageNotFound(error)
        THEN OnConsumeExit(g, FALSE)
        ELSE OnConsumeCatch(g, error)

\* processQueueMessage up to its first await.
ProcessQueueMessage(f) ==
    IF TeamMissing(f.decoded)
    THEN OnConsumeCatch(f, NoTeamErr)
    ELSE IF f.decoded.type \in KnownTypes
         THEN [f EXCEPT !.pc = "callGetSlack", !.stage = "dispatch"]
         ELSE PQMCatch(f, InvalidTypeErr)

\* An onConsume that decodes the message before its try statement.
OnConsumeBeginNoTry(f) ==
    LET parsed == JSONparse(f.body)
    IN  IF parsed.threw
        THEN [f EXCEPT !.pc = "abandoned", !.escaped = TRUE]
        ELSE ProcessQueueMessage([f EXCEPT !.decoded = parsed.value])

\* onConsume up to its first await.
OnConsumeBegin(f) ==
    LET parsed == JSONparse(f.body)
    IN  IF parsed.threw
        THEN OnConsumeCatch([f EXCEPT !.decoded = NoEnvelope], SyntaxErr)
        ELSE ProcessQueueMessage([f EXCEPT !.decoded = parsed.value])

\* getSlack returned session sid: say / update / delete / dm / dialog call the
\* session's method; the catch block of onConsume sends its direct message.
WithSession(f, sid) ==
    IF f.stage = "dispatch"
    THEN [f EXCEPT !.pc = "op", !.slack = sid,
                   !.ops = Append(@, [call |-> PlatformCall(f.decoded), sid |-> sid])]
    ELSE [f EXCEPT !.pc = "dm",
                   !.dms = Append(@, [uid |-> f.decoded.uid, sid |-> sid])]

\* getSlack threw: in dispatch the error goes through both catch blocks, in
\* the catch block of onConsume it leaves onConsume.
GetSlackThrew(f, error) ==
    IF f.stage = "dispatch" THEN PQMCatch(f, error) ELSE OnConsumeExit(f, TRUE)

\* An ackMessage that lengthens the delay.
AckDelayBackoff(d) == d + AckStep

\* An ackMessage without Math.max.
AckDelayNoFloor(d) == d - AckStep

\* ackMessage: this.ackDelay = Math.max(0, this.ackDelay - 10)
AckDelayAfterAck(d) == Max(0, d - AckStep)

\* ------------------------------------------- SlackListener: pure segments

\* SlackListener.enqueue(msg): this.ch.assertQueue throws a TypeError while
\* this.ch is undefined.  enqueue is async: the caller gets a rejected
\* promise, which is lost unless the caller awaits it.
EnqueueWorks == slackCh

\* channel_id.substr(0, 1)
FirstChar(id) == IF id \in {"G1", "G2", CreatedChannelId} THEN "G" ELSE "C"

\* req.body.command of a slash command
CommandOf(kind) == IF kind = "chatandslash" THEN COMMAND_CHATANDSLASH ELSE "/attack"

\* The payload of a request: the body the platform posted.
Payload(q) ==
    [token |-> q.token, team_id |-> q.team, channel_id |-> q.channelId,
     channel_name |-> q.channelName, user_id |-> UserId, command |-> CommandOf(q.kind)]

\* isValidToken(requestType, token)
IsValidToken(requestType, token) ==
    IF "payment" = requestType /\ CNS_API_TOKEN = token
    THEN TRUE
    ELSE IF VERIFICATION_TOKEN = token THEN TRUE ELSE FALSE

\* processPayload(type, payload): the handler awaits enqueue, so that its
\* TypeError leaves the handler.
ProcessPayload(q, type) ==
    IF IsValidToken(type, q.token)
    THEN IF EnqueueWorks
         THEN [q EXCEPT !.pc = "done",
                        !.enq = Append(@, [type |-> type, payload |-> Payload(q)])]
         ELSE [q EXCEPT !.pc = "failed", !.lost = @ + 1]
    ELSE [q EXCEPT !.pc = "done"]

\* finalizeNewGame(uid, teamid, channel, name, email): enqueue is not awaited.
FinalizeNewGame(q, channel) ==
    LET msg == [type |-> "new-game",
                payload |-> [uid |-> UserId, teamid |-> q.team,
                             channel |-> channel,
                             name |-> RealName, email |-> Email]]
    IN  IF EnqueueWorks
        THEN [q EXCEPT !.pc = "done", !.enq = Append(@, msg)]
        ELSE [q EXCEPT !.pc = "done", !.lost = @ + 1]

\* The handler calls a method of its session and awaits the answer at pc.
Call(q, pc, op, args) ==
    [q EXCEPT !.pc = pc, !.calls = Append(@, [op |-> op, args |-> args, res |-> "pending"])]

\* The platform's answer to the call the handler awaits.
Answer(q, res) == [q EXCEPT !.calls[Len(q.calls)].res = res]

\* An onSlash without the test of the channel id.
IsPrivateIdAlways(id) == TRUE

\* 'G' !== req.body.channel_id.substr(0, 1), negated
IsPrivateId(id) == "G" = FirstChar(id)

\* onSlash up to its first await.
OnSlash(q) ==
    IF ~IsPrivateId(q.channelId)
    THEN [q EXCEPT !.pc = "done"]
    ELSE IF CommandOf(q.kind) = COMMAND_CHATANDSLASH
         THEN [q EXCEPT !.pc = "callGetSlack"]
         ELSE ProcessPayload(q, "slash")

\* onEvent for an event_callback, processEvent up to its first await.
OnEvent(q) ==
    IF VERIFICATION_TOKEN = q.token
    THEN IF EVENT_TEAM_JOIN = q.kind
         THEN [q EXCEPT !.pc = "callGetSlack"]
         ELSE [q EXCEPT !.pc = "done"]
    ELSE [q EXCEPT !.pc = "done"]

\* The handler the request is routed to, up to its first await.
Route(q) ==
    CASE q.kind = "button" -> ProcessPayload(q, "button")
      [] q.kind = "payment" -> ProcessPayload(q, "payment")
      [] q.kind \in {"slash", "chatandslash"} -> OnSlash(q)
      [] OTHER -> OnEvent(q)

\* An onChatAndSlash without the test of the channel name.
IsPrivateGroupAlways(name) == TRUE

\* payload.channel_name !== CHANNEL_PRIVATEGROUP, negated
IsPrivateGroup(name) == name = CHANNEL_PRIVATEGROUP

\* slack.autoStart as a condition
Truthy(flag) == flag = "true"

\* getSlack returned session sid, whose autoStart is flag, to an HTTP handler.
\* onChatAndSlash tests the channel name and asks for the channel's members;
\* processEvent tests autoStart and asks for the user's profile.
HttpWithSession(q, sid, flag) ==
    LET g == [q EXCEPT !.slack = sid]
    IN  IF g.kind = "chatandslash"
        THEN IF ~IsPrivateGroup(g.channelName)
             THEN Call(g, "dm", "dm", <<UserId, "public">>)
             ELSE Call(g, "members", "getConversationMembers", <<g.channelId>>)
        ELSE IF Truthy(flag)
             THEN Call(g, "userInfo", "userInfo", <<UserId>>)
             ELSE [g EXCEPT !.pc = "done"]

\* getSlack threw: the exception leaves the handler.
HttpGetSlackThrew(q) == [q EXCEPT !.pc = "failed"]

\* joinUserToNewChannel(uid, name, email, channel, slack) up to its first await
CreateChannel(q, name) == Call(q, "create", "createPrivateChannel", <<name>>)

\* The name_taken answers the handler got so far.
NameTaken(q) ==
    Cardinality({i \in DOMAIN q.calls : q.calls[i].res = ERROR_CHANNEL_EXISTS})

\* --------------------------------------------------- Chatterbox.connect

\* this.mqConnection = await this.amqp.connect(this.mqUrl); a failure is
\* caught and reported, and nothing else is started.
AmqpConnect ==
    /\ boot = "start"
    /\ \E ok \in BOOLEAN :
         IF ok
         THEN boot' = "mq" /\ UNCHANGED startupReports
         ELSE boot' = "failed" /\ startupReports' = startupReports + 1
    /\ UNCHANGED <<slashCh, slackCh, listening, slackClients, sessions, gs, h,
                   req, unacked, ackLog, inQueue, ackDelay, ackStart, mode, characters>>

\* await this.slashListener.connect(): the relay's channel is created and
\* consumes the out-queue with prefetch 1.  Then SlackListener.connect runs up
\* to its await: it reads the certificate files (readFileSync throws when one
\* is missing; Chatterbox.connect catches and reports that) and starts the HTTP
\* server.
SlashListenerConnect ==
    /\ boot = "mq"
    /\ slashCh' = TRUE
    /\ \E certs \in BOOLEAN :
         IF certs
         THEN boot' = "slackChannel" /\ listening' = TRUE /\ UNCHANGED startupReports
         ELSE boot' = "failed" /\ startupReports' = startupReports + 1
              /\ UNCHANGED listening
    /\ UNCHANGED <<slackCh, slackClients, sessions, gs, h, req, unacked, ackLog,
                   inQueue, ackDelay, ackStart, mode, characters>>

\* SlackListener.connect: this.ch = await this.chatterbox.mqConnection.createChannel()
SlackListenerChannel ==
    /\ boot = "slackChannel"
    /\ boot' = "ready"
    /\ slackCh' = TRUE
    /\ UNCHANGED <<slashCh, listening, startupReports, slackClients, sessions, gs,
                   h, req, unacked, ackLog, inQueue, ackDelay, ackStart, mode, characters>>

\* -------------------------------------------------- Chatterbox.getSlack

\* _.isUndefined(this.slackClients[teamId]): getSlack returns the cached
\* session at once, or awaits getTeamInfo.
GetSlackMiss(t) == slackClients[t] = 0

GetSlackStart(t) == [GsNone EXCEPT !.pc = "fetch", !.team = t]

\* The invocation of message m goes on as f says: a frame that asks for a
\* session calls getSlack, which returns the cached session at once or awaits
\* getTeamInfo.
Resume(m, f) ==
    IF f.pc = "callGetSlack"
    THEN LET t == f.decoded.team
             g == [f EXCEPT !.getSlacks = @ + 1]
         IN  IF GetSlackMiss(t)
             THEN /\ h' = [h EXCEPT ![m] = [g EXCEPT !.pc = "getSlack"]]
                  /\ gs' = [gs EXCEPT ![m] = GetSlackStart(t)]
             ELSE /\ h' = [h EXCEPT ![m] = WithSession(g, slackClients[t])]
                  /\ gs' = [gs EXCEPT ![m] = GsNone]
    ELSE /\ h' = [h EXCEPT ![m] = f]
         /\ gs' = [gs EXCEPT ![m] = GsNone]

\* getSlack returns session sid, whose autoStart is flag, to caller c, which
\* goes on in the same turn of the event loop: an onConsume invocation calls
\* the session, an HTTP handler goes on with onChatAndSlash or processEvent.
GetSlackReturns(c, sid, flag) ==
    IF c \in Msgs
    THEN Resume(c, WithSession(h[c], sid)) /\ UNCHANGED req
    ELSE /\ req' = [req EXCEPT ![c] = HttpWithSession(req[c], sid, flag)]
         /\ gs' = [gs EXCEPT ![c] = GsNone]
         /\ UNCHANGED h

\* getSlack throws error to caller c.
GetSlackThrows(c, error) ==
    IF c \in Msgs
    THEN Resume(c, GetSlackThrew(h[c], error)) /\ UNCHANGED req
    ELSE /\ req' = [req EXCEPT ![c] = HttpGetSlackThrew(req[c])]
         /\ gs' = [gs EXCEPT ![c] = GsNone]
         /\ UNCHANGED h

\* A getTeamInfo that returns undefined fields when the query finds no row.
RowMissingNever(t) == FALSE

\* getTeamInfo: rows[0] is undefined when the teams table has no row for the
\* team, and reading rows[0].bot_token throws a TypeError.
RowMissing(t) == t \notin Installed

\* getTeamInfo answers.  With a row, getSlack constructs the session, stores it
\* in slackClients and calls its connect.  Without a row rows[0] is undefined
\* and reading rows[0].bot_token throws; the query itself can fail too.
GetTeamInfoReturn(c) ==
    /\ gs[c].pc = "fetch"
    /\ LET t == gs[c].team
       IN  \E dbOk \in BOOLEAN :
             IF dbOk /\ ~RowMissing(t)
             THEN /\ sessions' = Append(sessions,
                        [team |-> t, connected |-> FALSE, autoStart |-> Undefined])
                  /\ slackClients' = [slackClients EXCEPT ![t] = Len(sessions) + 1]
                  /\ gs' = [gs EXCEPT ![c] = [@ EXCEPT !.pc = "connect",
                                                        !.sid = Len(sessions) + 1,
                                                        !.autoStart = AutoStartOf(t)]]
                  /\ UNCHANGED <<h, req>>
             ELSE /\ GetSlackThrows(c, IF dbOk THEN NoRowErr ELSE DbErr)
                  /\ UNCHANGED <<sessions, slackClients>>
    /\ UNCHANGED <<boot, slashCh, slackCh, listening, startupReports,
                   unacked, ackLog, inQueue, ackDelay, ackStart, mode, characters>>

\* connect of the session this caller constructed answers.  On success the
\* autoStart flag is set on, and getSlack returns, whatever slackClients holds
\* for the team now.
ConnectReturn(c) ==
    /\ gs[c].pc = "connect"
    /\ LET t == gs[c].team
           cur == slackClients[t]
       IN  \E ok \in BOOLEAN :
             IF ok
             THEN /\ sessions' = [sessions EXCEPT
                                    ![gs[c].sid] = [@ EXCEPT !.connected = TRUE],
                                    ![cur] = [@ EXCEPT !.autoStart = gs[c].autoStart]]
                  /\ GetSlackReturns(c, cur, gs[c].autoStart)
             ELSE /\ GetSlackThrows(c, PlatformErr("invalid_auth"))
                  /\ UNCHANGED sessions
    /\ UNCHANGED <<boot, slashCh, slackCh, listening, startupReports, slackClients,
                   unacked, ackLog, inQueue, ackDelay, ackStart, mode, characters>>

\* ------------------------------------------------------- SlashListener

\* The broker delivers the next message of the out-queue while fewer than
\* prefetch messages are unacknowledged.  The game engine chose its content.
\* The record of an invocation that ended with its acknowledgment is dropped
\* here (ackLog keeps the acknowledgment).
Deliver(m) ==
    /\ slashCh
    /\ h[m].pc = "idle"
    /\ \A k \in Msgs : k < m => h[k].pc # "idle"
    /\ Cardinality(unacked) < PrefetchCount
    /\ \E b \in Bodies :
         h' = [k \in Msgs |->
                 IF k = m THEN [IdleFrame EXCEPT !.pc = "consume", !.body = b]
                 ELSE IF h[k].pc = "acked" THEN GoneFrame
                 ELSE h[k]]
    /\ unacked' = unacked \cup {m}
    /\ UNCHANGED <<boot, slashCh, slackCh, listening, startupReports, slackClients,
                   sessions, gs, req, ackLog, inQueue, ackDelay, ackStart, mode, characters>>

\* onConsume(message) runs up to its first await.
OnConsume(m) ==
    /\ h[m].pc = "consume"
    /\ Resume(m, OnConsumeBegin(h[m]))
    /\ UNCHANGED <<boot, slashCh, slackCh, listening, startupReports, slackClients,
                   sessions, req, unacked, ackLog, inQueue, ackDelay, ackStart, mode, characters>>

\* The platform answers the operation of message m.  After a successful say
\* the add_timestamp envelope is enqueued.
OpReturn(m) ==
    /\ h[m].pc = "op"
    /\ \E r \in Outcomes :
         LET f == [h[m] EXCEPT !.opResult = r]
             msg == AddTimestamp([ts |-> ResponseTs], f.decoded)
         IN  IF r = "ok"
             THEN IF f.decoded.type = "say"
                  THEN IF EnqueueWorks
                       THEN /\ inQueue' = Append(inQueue, msg)
                            /\ Resume(m, OnConsumeExit([f EXCEPT !.enq = Append(@, msg)], FALSE))
                       ELSE /\ UNCHANGED inQueue
                            /\ Resume(m, OnConsumeExit([f EXCEPT !.lost = @ + 1], FALSE))
                  ELSE /\ UNCHANGED inQueue
                       /\ Resume(m, OnConsumeExit(f, FALSE))
             ELSE /\ UNCHANGED inQueue
                  /\ Resume(m, PQMCatch(f, PlatformErr(r)))
    /\ UNCHANGED <<boot, slashCh, slackCh, listening, startupReports, slackClients,
                   sessions, req, unacked, ackLog, ackDelay, ackStart, mode, characters>>

\* The platform answers the direct message sent by the catch block of
\* onConsume; a failure leaves onConsume as an exception.
DmReturn(m) ==
    /\ h[m].pc = "dm"
    /\ \E ok \in BOOLEAN : Resume(m, OnConsumeExit(h[m], ~ok))
    /\ UNCHANGED <<boot, slashCh, slackCh, listening, startupReports, slackClients,
                   sessions, req, unacked, ackLog, inQueue, ackDelay, ackStart, mode, characters>>

\* The timer set by the finally block fires: ackMessage(message).
AckMessage(m) ==
    /\ h[m].pc = "timer"
    /\ h' = [h EXCEPT ![m] = [@ EXCEPT !.pc = "acked", !.acks = @ + 1]]
    /\ unacked' = unacked \ {m}
    /\ ackLog' = Append(ackLog, m)
    /\ ackDelay' = AckDelayAfterAck(ackDelay)
    /\ UNCHANGED <<boot, slashCh, slackCh, listening, startupReports, slackClients,
                   sessions, gs, req, inQueue, ackStart, mode, characters>>

\* ------------------------------------------------- SlackListener (HTTP)

\* The requests the platform can send.  Fields a handler does not read keep
\* one value.
Requests ==
    {[IdleReq EXCEPT !.kind = k, !.token = tk, !.team = "T1"] :
        k \in {"button", "payment"}, tk \in Tokens}
    \cup {[IdleReq EXCEPT !.kind = "slash", !.token = tk, !.team = "T1",
                          !.channelId = c, !.channelName = CHANNEL_PRIVATEGROUP] :
        tk \in {VERIFICATION_TOKEN, "guess"}, c \in ChannelIds}
    \cup {[IdleReq EXCEPT !.kind = "chatandslash", !.token = tk, !.team = t,
                          !.channelId = c, !.channelName = n] :
        tk \in {VERIFICATION_TOKEN, "guess"}, t \in Teams, c \in ChannelIds,
        n \in ChannelNames}
    \cup {[IdleReq EXCEPT !.kind = k, !.token = tk, !.team = t] :
        k \in {"team_join", "reaction_added"}, tk \in {VERIFICATION_TOKEN, "guess"},
        t \in Teams}

\* The envelopes q has enqueued and p had not.
NewlyEnqueued(p, q) == SubSeq(q.enq, Len(p.enq) + 1, Len(q.enq))

\* The handler of request r goes on as q says: a handler that asks for a
\* session calls getSlack, which returns the cached session at once or awaits
\* getTeamInfo.  What the handler enqueued is on the in-queue.
HttpResume(r, q) ==
    /\ inQueue' = inQueue \o NewlyEnqueued(req[r], q)
    /\ IF q.pc = "callGetSlack"
       THEN IF GetSlackMiss(q.team)
            THEN /\ req' = [req EXCEPT ![r] = [q EXCEPT !.pc = "getSlack"]]
                 /\ gs' = [gs EXCEPT ![r] = GetSlackStart(q.team)]
            ELSE /\ req' = [req EXCEPT ![r] =
                               HttpWithSession(q, slackClients[q.team],
                                               sessions[slackClients[q.team]].autoStart)]
                 /\ gs' = [gs EXCEPT ![r] = GsNone]
       ELSE /\ req' = [req EXCEPT ![r] = q]
            /\ gs' = [gs EXCEPT ![r] = GsNone]

\* A request reaches onButton, onSlash, onEvent or onPayment, which runs up to
\* its first await.
HttpRequest(r) ==
    /\ listening
    /\ req[r].pc = "idle"
    /\ \E q \in Requests : HttpResume(r, Route([q EXCEPT !.pc = "routed"]))
    /\ UNCHANGED <<boot, slashCh, slackCh, listening, startupReports, slackClients,
                   sessions, h, unacked, ackLog, ackDelay, ackStart, mode, characters>>

\* onChatAndSlash: getConversationMembers answers.  channel_not_found gets the
\* user the direct message about inviting the bot, any other error is
\* rethrown, success goes on to getCharacterChannel.
MembersReturn(r) ==
    /\ req[r].pc = "members"
    /\ \E res \in {"ok", ERROR_NOT_IN_CHANNEL, "ratelimited"} :
         LET q == Answer(req[r], res)
         IN  HttpResume(r,
                 IF res = "ok" THEN [q EXCEPT !.pc = "binding"]
                 ELSE IF IsNotInChannel(PlatformErr(res))
                      THEN Call(q, "dm", "dm", <<UserId, "invite">>)
                      ELSE [q EXCEPT !.pc = "failed"])
    /\ UNCHANGED <<boot, slashCh, slackCh, listening, startupReports, slackClients,
                   sessions, h, unacked, ackLog, ackDelay, ackStart, mode, characters>>

\* An onChatAndSlash that starts a game whatever channel the user has.
HasOtherGameNever(existingChannel) == FALSE

\* '' !== existingChannel
HasOtherGame(existingChannel) == "" # existingChannel

\* getCharacterChannel: rows.length > 0 ? rows[0].channel : ''
GetCharacterChannel(uid, teamid) == characters[teamid]

\* onChatAndSlash: getCharacterChannel answers with the channel of the user's
\* game ('' without one), or the query fails.
BindingReturn(r) ==
    /\ req[r].pc = "binding"
    /\ \E dbOk \in BOOLEAN :
         LET existingChannel == GetCharacterChannel(UserId, req[r].team)
             q == [req[r] EXCEPT !.existing = existingChannel]
         IN  HttpResume(r,
                 IF ~dbOk THEN [req[r] EXCEPT !.pc = "failed"]
                 ELSE IF existingChannel = q.channelId
                      THEN ProcessPayload(q, "slash")
                      ELSE IF HasOtherGame(existingChannel)
                           THEN Call(q, "convInfo", "getConversationInfo", <<existingChannel>>)
                           ELSE Call(q, "userInfo", "userInfo", <<UserId>>))
    /\ UNCHANGED <<boot, slashCh, slackCh, listening, startupReports, slackClients,
                   sessions, h, unacked, ackLog, ackDelay, ackStart, mode, characters>>

\* onChatAndSlash: getConversationInfo answers; the user is told where the
\* game is.
ConvInfoReturn(r) ==
    /\ req[r].pc = "convInfo"
    /\ \E ok \in BOOLEAN :
         LET q == Answer(req[r], IF ok THEN "ok" ELSE ERROR_NOT_IN_CHANNEL)
         IN  HttpResume(r,
                 IF ok THEN Call(q, "dm", "dm", <<UserId, "existing", q.existing>>)
                 ELSE [q EXCEPT !.pc = "failed"])
    /\ UNCHANGED <<boot, slashCh, slackCh, listening, startupReports, slackClients,
                   sessions, h, unacked, ackLog, ackDelay, ackStart, mode, characters>>

\* userInfo answers.  onChatAndSlash starts the game in the channel of the
\* command; processEvent creates a channel with a new name.
UserInfoReturn(r) ==
    /\ req[r].pc = "userInfo"
    /\ \E ok \in BOOLEAN, name \in GameChannelNames :
         LET q == Answer(req[r], IF ok THEN "ok" ELSE "user_not_found")
         IN  HttpResume(r,
                 IF ~ok THEN [q EXCEPT !.pc = "failed"]
                 ELSE IF q.kind = "chatandslash"
                      THEN FinalizeNewGame(q, q.channelId)
                      ELSE CreateChannel(q, name))
    /\ UNCHANGED <<boot, slashCh, slackCh, listening, startupReports, slackClients,
                   sessions, h, unacked, ackLog, ackDelay, ackStart, mode, characters>>

\* A joinUserToNewChannel that throws on name_taken as on any other failure.
IsChannelExistsNever(createResponse) == FALSE

\* ERROR_CHANNEL_EXISTS === _.get(createResponse, 'error', '')
IsChannelExists(createResponse) == ERROR_CHANNEL_EXISTS = createResponse

\* joinUserToNewChannel: createPrivateChannel answers.  name_taken starts
\* joinUserToNewChannel again with a new name, any other failure throws,
\* success invites the user.
CreateReturn(r) ==
    /\ req[r].pc = "create"
    /\ \E res \in {"ok", ERROR_CHANNEL_EXISTS, "restricted_action"},
          name \in GameChannelNames :
         /\ res = ERROR_CHANNEL_EXISTS => NameTaken(req[r]) < MaxNameTaken
         /\ LET q == Answer(req[r], res)
            IN  HttpResume(r,
                    IF res = "ok"
                    THEN Call(q, "inviteUser", "invitePrivateChannel",
                              <<CreatedChannelId, UserId>>)
                    ELSE IF IsChannelExists(res)
                         THEN CreateChannel(q, name)
                         ELSE [q EXCEPT !.pc = "failed"])
    /\ UNCHANGED <<boot, slashCh, slackCh, listening, startupReports, slackClients,
                   sessions, h, unacked, ackLog, ackDelay, ackStart, mode, characters>>

\* A joinUserToNewChannel that goes on after any failed invite of the user.
UserInviteToleratedAlways(m, error) == TRUE

\* process.env.MODE === 'dev' && inviteResponse.error === 'cant_invite_self'
UserInviteTolerated(m, error) == m = "dev" /\ error = "cant_invite_self"

\* joinUserToNewChannel: the invite of the user answers; then the bot is
\* invited.
InviteUserReturn(r) ==
    /\ req[r].pc = "inviteUser"
    /\ \E res \in {"ok", "cant_invite_self", "user_not_found"} :
         LET q == Answer(req[r], res)
         IN  HttpResume(r,
                 IF res = "ok" \/ UserInviteTolerated(mode, res)
                 THEN Call(q, "inviteBot", "invitePrivateChannel",
                           <<CreatedChannelId, BotId>>)
                 ELSE [q EXCEPT !.pc = "failed"])
    /\ UNCHANGED <<boot, slashCh, slackCh, listening, startupReports, slackClients,
                   sessions, h, unacked, ackLog, ackDelay, ackStart, mode, characters>>

\* joinUserToNewChannel: the invite of the bot answers; on success it returns
\* createResponse.group.id and processEvent starts the game there.
InviteBotReturn(r) ==
    /\ req[r].pc = "inviteBot"
    /\ \E ok \in BOOLEAN :
         LET q == Answer(req[r], IF ok THEN "ok" ELSE "not_in_group")
         IN  HttpResume(r,
                 IF ok THEN FinalizeNewGame(q, CreatedChannelId)
                 ELSE [q EXCEPT !.pc = "failed"])
    /\ UNCHANGED <<boot, slashCh, slackCh, listening, startupReports, slackClients,
                   sessions, h, unacked, ackLog, ackDelay, ackStart, mode, characters>>

\* onChatAndSlash: the direct message answers; a failure leaves the handler as
\* an exception.
HttpDmReturn(r) ==
    /\ req[r].pc = "dm"
    /\ \E ok \in BOOLEAN :
         HttpResume(r, [Answer(req[r], IF ok THEN "ok" ELSE "ratelimited")
                          EXCEPT !.pc = IF ok THEN "done" ELSE "failed"])
    /\ UNCHANGED <<boot, slashCh, slackCh, listening, startupReports, slackClients,
                   sessions, h, unacked, ackLog, ackDelay, ackStart, mode, characters>>

\* ---------------------------------------------------------- specification

\* The steps of the onConsume invocation of message m, getSlack included.
RelayStep(m) ==
    \/ OnConsume(m)
    \/ GetTeamInfoReturn(m)
    \/ ConnectReturn(m)
    \/ OpReturn(m)
    \/ DmReturn(m)
    \/ AckMessage(m)

\* The steps of the HTTP handler invocation of request r, getSlack included.
HttpStep(r) ==
    \/ HttpRequest(r)
    \/ GetTeamInfoReturn(r)
    \/ ConnectReturn(r)
    \/ MembersReturn(r)
    \/ BindingReturn(r)
    \/ ConvInfoReturn(r)
    \/ UserInfoReturn(r)
    \/ CreateReturn(r)
    \/ InviteUserReturn(r)
    \/ InviteBotReturn(r)
    \/ HttpDmReturn(r)

\* The process without HTTP traffic: startup and the out-queue consumer.
NextRelay ==
    \/ AmqpConnect
    \/ SlashListenerConnect
    \/ SlackListenerChannel
    \/ \E m \in Msgs : Deliver(m)
    \/ \E m \in Msgs : RelayStep(m)

Next ==
    \/ NextRelay
    \/ \E r \in Reqs : HttpStep(r)

Spec == Init /\ [][Next]_vars

\* The process while the game engine sends nothing: startup and the HTTP
\* handlers.
NextHttp ==
    \/ AmqpConnect
    \/ SlashListenerConnect
    \/ SlackListenerChannel
    \/ \E r \in Reqs : HttpStep(r)

SpecHttp == Init /\ [][NextHttp]_vars

\* The process while no HTTP request comes: startup and the out-queue
\* consumer.
SpecRelay == Init /\ [][NextRelay]_vars

\* Every external call answers and every timer fires.
FairSpec == SpecRelay /\ \A m \in Msgs : WF_vars(RelayStep(m))

\* The relay started with any value of ackDelay.  The HTTP handlers never
\* read or write ackDelay and are left out of SpecAckDelay.
InitAckDelay ==
    /\ boot = "start"
    /\ slashCh = FALSE
    /\ slackCh = FALSE
    /\ listening = FALSE
    /\ startupReports = 0
    /\ slackClients = [t \in TeamKeys |-> 0]
    /\ sessions = <<>>
    /\ gs = [c \in Callers |-> GsNone]
    /\ h = [m \in Msgs |-> IdleFrame]
    /\ req = [r \in Reqs |-> IdleReq]
    /\ unacked = {}
    /\ ackLog = <<>>
    /\ inQueue = <<>>
    /\ ackDelay \in {5 * k : k \in 0..MaxStartSteps}
    /\ ackStart = ackDelay
    /\ mode \in Modes
    /\ characters \in Characters

SpecAckDelay == InitAckDelay /\ [][NextRelay]_vars

\* ---------------------------------------------------------------- claims

\* The messages the broker holds an acknowledgment for.
Acked == {ackLog[i] : i \in DOMAIN ackLog}

\* onConsume is over for this invocation: the acknowledgment is scheduled or done.
Handled(f) == f.pc \in {"timer", "acked"}

\* The invocation decoded an envelope without a team.
TeamAbsent(f) == f.decoded # NoEnvelope /\ f.decoded.team = Undefined

\* The invocation called its platform operation and the platform answered r.
OpAnswered(f, r) == Len(f.ops) = 1 /\ f.opResult = r

\* C1: every message delivered to onConsume is eventually acknowledged,
\* whatever its processing came to, provided every external call answers and
\* every timer fires (FairSpec).
C1_EveryMessageAcked ==
    \A m \in Msgs : (m \in unacked) ~> (m \in Acked /\ m \notin unacked)

\* C1 witness: a message is acknowledged although the corrective direct
\* message failed and the exception left onConsume.
C1_Witness ==
    \E m \in Msgs : h[m].pc = "acked" /\ h[m].escaped /\ m \in Acked

\* C2: with prefetch 1 the invocations of onConsume never overlap: a message
\* is delivered only once every earlier one is acknowledged, it is
\* acknowledged only once its own invocation has nothing pending, and the
\* acknowledgments come in queue order.
C2_OneAtATime ==
    /\ Cardinality({m \in Msgs : h[m].pc \notin {"idle", "acked", "gone"}}) <= 1
    /\ \A m \in Msgs : h[m].pc # "idle" => \A k \in Msgs : k < m => k \in Acked
    /\ \A m \in Acked : h[m].pc \in {"acked", "gone"} /\ gs[m].pc = "none"
    /\ \A i \in DOMAIN ackLog : ackLog[i] = i

\* C2 witness: the second message is at its platform operation, the first is
\* acknowledged.
C2_Witness ==
    /\ NumMsgs >= 2
    /\ h[2].pc = "op"
    /\ ackLog = <<1>>

\* C3: at most one session is ever constructed for a workspace, whatever the
\* interleaving of the getSlack calls.
C3_OneSessionPerWorkspace ==
    \A t \in Teams : Cardinality({i \in DOMAIN sessions : sessions[i].team = t}) <= 1

\* C4: an envelope without a team, of any type, leads to no platform
\* operation, no direct message and no getSlack call, to exactly one report
\* of the validation error, and to the acknowledgment of the message.
C4_MissingTeam ==
    \A m \in Msgs :
        (h[m].pc \notin {"idle", "consume", "gone"} /\ TeamAbsent(h[m])) =>
            /\ Handled(h[m])
            /\ h[m].ops = <<>>
            /\ h[m].dms = <<>>
            /\ h[m].getSlacks = 0
            /\ h[m].reports = <<[error |-> NoTeamErr, info |-> h[m].decoded]>>
            /\ h[m].pc = "timer" => (m \in unacked /\ ENABLED AckMessage(m))
            /\ h[m].pc = "acked" => (h[m].acks = 1 /\ m \in Acked /\ m \notin unacked)

\* C4 witness: an update envelope without a team was reported and acknowledged.
C4_Witness ==
    \E m \in Msgs :
        /\ h[m].pc = "acked"
        /\ TeamAbsent(h[m])
        /\ h[m].decoded.type = "update"
        /\ Len(h[m].reports) = 1

\* C5: a say whose postMessage succeeded has put exactly one add_timestamp
\* envelope on the in-queue, with the returned ts, the envelope's channel and
\* its team, in every state the process can be in; a failed say and every
\* other envelope enqueue nothing.
C5_SayEnqueuesTimestamp ==
    \A m \in Msgs :
        (Handled(h[m]) /\ h[m].decoded # NoEnvelope) =>
            IF h[m].decoded.type = "say" /\ OpAnswered(h[m], "ok")
            THEN h[m].enq = <<[type |-> "add_timestamp",
                               payload |-> [ts |-> ResponseTs,
                                            channel |-> h[m].decoded.channel,
                                            teamid |-> h[m].decoded.team]]>>
            ELSE h[m].enq = <<>>

\* C6: when the operation of an envelope, of any type, fails with
\* channel_not_found, the relay sends exactly one direct message, to the
\* envelope's uid on a session of the envelope's team, reports nothing, and
\* acknowledges the message.
C6_ChannelNotFound ==
    \A m \in Msgs :
        OpAnswered(h[m], ERROR_NOT_IN_CHANNEL) =>
            /\ h[m].pc \in {"dm", "timer", "acked"}
            /\ Len(h[m].dms) = 1
            /\ h[m].dms[1].uid = h[m].decoded.uid
            /\ h[m].dms[1].sid \in DOMAIN sessions
            /\ sessions[h[m].dms[1].sid].team = h[m].decoded.team
            /\ h[m].reports = <<>>
            /\ h[m].pc = "timer" => (m \in unacked /\ ENABLED AckMessage(m))
            /\ h[m].pc = "acked" => (h[m].acks = 1 /\ m \in Acked /\ m \notin unacked)

\* C6 witness: a say failed with channel_not_found, the direct message was
\* sent and the message is acknowledged.
C6_Witness ==
    \E m \in Msgs :
        /\ h[m].pc = "acked"
        /\ h[m].decoded # NoEnvelope
        /\ h[m].decoded.type = "say"
        /\ OpAnswered(h[m], ERROR_NOT_IN_CHANNEL)
        /\ Len(h[m].dms) = 1

\* C7: when the operation of an envelope (update, delete, dm, or any other)
\* fails with message_not_found, no exception leaves processQueueMessage or
\* onConsume, nothing is reported, no direct message is sent, and the message
\* is acknowledged.
C7_MessageNotFound ==
    \A m \in Msgs :
        OpAnswered(h[m], ERROR_MESSAGE_NOT_FOUND) =>
            /\ Handled(h[m])
            /\ ~h[m].escaped
            /\ h[m].reports = <<>>
            /\ h[m].dms = <<>>
            /\ h[m].pc = "timer" => (m \in unacked /\ ENABLED AckMessage(m))
            /\ h[m].pc = "acked" => (h[m].acks = 1 /\ m \in Acked /\ m \notin unacked)

\* C7 witness: a dm envelope whose dm failed with message_not_found is
\* acknowledged.
C7_Witness ==
    \E m \in Msgs :
        /\ h[m].pc = "acked"
        /\ h[m].decoded # NoEnvelope
        /\ h[m].decoded.type = "dm"
        /\ OpAnswered(h[m], ERROR_MESSAGE_NOT_FOUND)

\* Dispatch failed with an error that is neither channel_not_found nor
\* message_not_found.
UnclassifiedFailure(f) ==
    /\ f.failure # NoErr
    /\ f.failure.message # ERROR_NOT_IN_CHANNEL
    /\ f.failure.data # ERROR_MESSAGE_NOT_FOUND

\* C8: when dispatch fails with an error that is neither channel_not_found
\* nor message_not_found (an unknown type included), the error is reported
\* exactly once with the decoded envelope as context, no direct message is
\* sent, the operation is not tried again, the message is acknowledged exactly
\* once and not delivered again, and the broker can deliver the next message.
C8_UnclassifiedError ==
    \A m \in Msgs :
        UnclassifiedFailure(h[m]) =>
            /\ Handled(h[m])
            /\ h[m].reports = <<[error |-> h[m].failure, info |-> h[m].decoded]>>
            /\ h[m].decoded # NoEnvelope
            /\ h[m].dms = <<>>
            /\ Len(h[m].ops) <= 1
            /\ h[m].pc = "timer" => (h[m].acks = 0 /\ m \in unacked /\ ENABLED AckMessage(m))
            /\ h[m].pc = "acked" =>
                 /\ h[m].acks = 1
                 /\ Cardinality({i \in DOMAIN ackLog : ackLog[i] = m}) = 1
                 /\ m \notin unacked
                 /\ ~ENABLED Deliver(m)
                 /\ (m < NumMsgs /\ h[m + 1].pc = "idle") => ENABLED Deliver(m + 1)

\* C8 witness: an envelope of unknown type was reported and acknowledged, and
\* the next message waits for delivery.
C8_Witness ==
    \E m \in Msgs :
        /\ h[m].pc = "acked"
        /\ h[m].failure = InvalidTypeErr
        /\ Len(h[m].reports) = 1
        /\ m < NumMsgs
        /\ ENABLED Deliver(m + 1)

\* The operation and the arguments the type table gives for an envelope.
ExpectedCall(e) ==
    CASE e.type = "say" -> [op |-> "postMessage", args |-> <<e.channel, e.text, e.opts>>]
      [] e.type = "update" -> [op |-> "updateMessage", args |-> <<e.ts, e.channel, e.text, e.opts>>]
      [] e.type = "delete" -> [op |-> "deleteMessage", args |-> <<e.ts, e.channel>>]
      [] e.type = "dm" -> [op |-> "dm", args |-> <<e.uid, e.text, e.opts>>]
      [] e.type = "dialog" -> [op |-> "dialog", args |-> <<e.triggerId, e.dialog>>]

\* The invocation called exactly the operation of its envelope's type, once,
\* on a session of the envelope's team.
CalledItsOperation(f) ==
    /\ Len(f.ops) = 1
    /\ f.ops[1].call = ExpectedCall(f.decoded)
    /\ f.ops[1].sid \in DOMAIN sessions
    /\ sessions[f.ops[1].sid].team = f.decoded.team

\* C9 as claimed: every envelope with a team and a known type has exactly one
\* platform operation called, the one of its type; any other type has none
\* and fails with the unknown-type error.
C9_ExactlyOneOperation ==
    \A m \in Msgs :
        (Handled(h[m]) /\ h[m].decoded # NoEnvelope /\ ~TeamAbsent(h[m])) =>
            IF h[m].decoded.type \in KnownTypes
            THEN CalledItsOperation(h[m])
            ELSE h[m].ops = <<>> /\ h[m].failure = InvalidTypeErr

\* C9 as amended: for an envelope with a team and a known type, dispatch calls
\* the operation of its type exactly once, on the team's session, when getSlack
\* returns a session, and calls no operation when getSlack throws; any other
\* type has none and fails with the unknown-type error.
C9_OneOperationGivenSession ==
    \A m \in Msgs :
        (Handled(h[m]) /\ h[m].decoded # NoEnvelope /\ ~TeamAbsent(h[m])) =>
            IF h[m].decoded.type \in KnownTypes
            THEN IF h[m].slack # 0
                 THEN CalledItsOperation(h[m]) /\ h[m].ops[1].sid = h[m].slack
                 ELSE h[m].ops = <<>> /\ h[m].failure \in {NoRowErr, DbErr, PlatformErr("invalid_auth")}
            ELSE h[m].ops = <<>> /\ h[m].failure = InvalidTypeErr
                 /\ h[m].getSlacks = 0

\* C9 witness: an update envelope had updateMessage(ts, channel, text, opts)
\* called on its team's session.
C9_Witness ==
    \E m \in Msgs :
        /\ h[m].pc = "acked"
        /\ h[m].decoded # NoEnvelope
        /\ h[m].decoded.type = "update"
        /\ h[m].slack # 0
        /\ CalledItsOperation(h[m])

\* C10: ackDelay is never negative, and after N acknowledgments from the
\* start value V it is max(0, V - 10 * N); as every other step leaves N
\* unchanged, only ackMessage writes it.
C10_AckDelay ==
    /\ ackDelay >= 0
    /\ ackDelay = Max(0, ackStart - 10 * Len(ackLog))

\* C10 witness: from 5, one acknowledgment brought ackDelay to the floor 0.
C10_Witness ==
    /\ ackStart = 5
    /\ Len(ackLog) = 1
    /\ ackDelay = 0

\* The invocation got a message whose body is no JSON text.
Undecodable(f) == f.pc \notin {"idle", "consume", "gone"} /\ ~f.body.valid

\* C11: a message whose body cannot be decoded leads to no platform operation,
\* no direct message and no getSlack call; the decoding error is reported, no
\* exception leaves onConsume, the message is acknowledged, and the broker can
\* then deliver the next message.
C11_DecodeFailure ==
    \A m \in Msgs :
        Undecodable(h[m]) =>
            /\ Handled(h[m])
            /\ h[m].decoded = NoEnvelope
            /\ h[m].ops = <<>>
            /\ h[m].dms = <<>>
            /\ h[m].getSlacks = 0
            /\ ~h[m].escaped
            /\ h[m].reports = <<[error |-> SyntaxErr, info |-> NoEnvelope]>>
            /\ h[m].pc = "timer" => (m \in unacked /\ ENABLED AckMessage(m))
            /\ h[m].pc = "acked" =>
                 /\ h[m].acks = 1
                 /\ m \in Acked
                 /\ m \notin unacked
                 /\ (m < NumMsgs /\ h[m + 1].pc = "idle") => ENABLED Deliver(m + 1)

\* C11 witness: the first message could not be decoded and is acknowledged,
\* and the second can be delivered.
C11_Witness ==
    /\ NumMsgs >= 2
    /\ Undecodable(h[1])
    /\ h[1].pc = "acked"
    /\ ENABLED Deliver(2)

\* The session getSlack returned to a caller that holds one, and the team it
\* asked for.
Returned ==
    {[team |-> h[m].decoded.team, sid |-> h[m].slack] : m \in {k \in Msgs : h[k].slack # 0}}
    \cup {[team |-> req[r].team, sid |-> req[r].slack] : r \in {k \in Reqs : req[k].slack # 0}}

\* C12: once getSlack has returned a session for a workspace, the cache holds
\* that session for the workspace, so that every later call returns the same
\* session; the entry is never replaced or removed.
C12_GetSlackIdempotent ==
    \A x \in Returned : slackClients[x.team] = x.sid

\* The invocation asked getSlack for a workspace without a row in the teams
\* table, and getSlack is over.
AskedUnknownTeam(f) ==
    /\ Handled(f)
    /\ f.decoded # NoEnvelope
    /\ f.decoded.team \in Teams \ Installed
    /\ f.decoded.type \in KnownTypes

\* C13: getSlack for a workspace without a record fails: with the error
\* raised for the missing row, or with the error of the query when the store
\* does not answer.  No session is constructed for the workspace, none is
\* connected, and the cache keeps no entry for it; the caller calls no
\* platform operation and reports the error.
C13_UnknownWorkspace ==
    /\ \A t \in Teams \ Installed :
         /\ slackClients[t] = 0
         /\ \A i \in DOMAIN sessions : sessions[i].team # t
    /\ \A m \in Msgs :
         AskedUnknownTeam(h[m]) =>
            /\ h[m].getSlacks = 1
            /\ h[m].slack = 0
            /\ h[m].ops = <<>>
            /\ h[m].failure \in {NoRowErr, DbErr}
            /\ h[m].reports = <<[error |-> h[m].failure, info |-> h[m].decoded]>>

\* C13 witness: a say for the workspace without a row failed with the error
\* of the missing row.
C13_Witness ==
    \E m \in Msgs :
        /\ AskedUnknownTeam(h[m])
        /\ h[m].decoded.type = "say"
        /\ h[m].failure = NoRowErr
        /\ h[m].pc = "acked"

\* The handler of the request is over.
Over(q) == q.pc \in {"done", "failed"}

\* The request carried a valid secret: VERIFICATION_TOKEN, or CNS_API_TOKEN
\* for a payment.
CarriedValidToken(q) ==
    \/ q.token = VERIFICATION_TOKEN
    \/ q.kind = "payment" /\ q.token = CNS_API_TOKEN

\* The handler called finalizeNewGame (which enqueued the new-game envelope,
\* or lost it to a channel that did not exist yet).
StartedGame(q) ==
    \/ q.lost > 0 /\ q.pc = "done"
    \/ \E i \in DOMAIN q.enq : q.enq[i].type = "new-game"

\* C14: a request without a valid token puts no envelope on the in-queue; in
\* particular a game-start command with an invalid token starts no game.
C14_TokenGuardsInQueue ==
    \A r \in Reqs :
        ~CarriedValidToken(req[r]) => req[r].enq = <<>>

\* The game-start command came from a channel of private-group type.
FromPrivateGroup(q) == FirstChar(q.channelId) = "G" /\ q.channelName = CHANNEL_PRIVATEGROUP

\* C15: a game-start command from a channel that is not of private-group type
\* (id not starting with G, or name other than privategroup) starts no game
\* and enqueues nothing.
C15_NoGameOutsidePrivateGroup ==
    \A r \in Reqs :
        (req[r].kind = "chatandslash" /\ ~FromPrivateGroup(req[r])) =>
            /\ ~StartedGame(req[r])
            /\ req[r].enq = <<>>
            /\ req[r].pc \notin {"members", "binding", "convInfo", "userInfo"}

\* C15 witness: a game-start command from a private channel of another name
\* was answered with the direct message and is over.
C15_Witness ==
    \E r \in Reqs :
        /\ req[r].kind = "chatandslash"
        /\ req[r].channelId = "G1"
        /\ req[r].channelName = "general"
        /\ req[r].pc = "done"
        /\ Len(req[r].calls) = 1

\* The calls of dm the handler made.
DmCalls(q) == SelectSeq(q.calls, LAMBDA c : c.op = "dm")

C17_SameChannelForwards ==
    \A r \in Reqs :
        (req[r].kind = "chatandslash" /\ CarriedValidToken(req[r])
            /\ req[r].existing = req[r].channelId /\ Over(req[r])) =>
            /\ req[r].enq = <<[type |-> "slash", payload |-> Payload(req[r])]>>
            /\ ~StartedGame(req[r])

\* The i-th call of the handler is a creation of a channel.
IsCreate(q, i) == q.calls[i].op = "createPrivateChannel"

\* C18: during provisioning every name_taken answer to createPrivateChannel
\* is followed by another createPrivateChannel with a generated name and never
\* ends the handler; the first other answer ends the creations: ok goes on to
\* the invite of the user, any other failure ends the handler at once.
C18_NameTakenRetries ==
    \A r \in Reqs : \A i \in DOMAIN req[r].calls :
        IsCreate(req[r], i) =>
            LET res == req[r].calls[i].res
                last == i = Len(req[r].calls)
            IN  /\ req[r].calls[i].args[1] \in GameChannelNames
                /\ res = "pending" => (last /\ req[r].pc = "create")
                /\ res = ERROR_CHANNEL_EXISTS =>
                     (~last /\ IsCreate(req[r], i + 1))
                /\ res = "ok" =>
                     /\ ~last
                     /\ req[r].calls[i + 1].op = "invitePrivateChannel"
                     /\ \A j \in DOMAIN req[r].calls : j > i => ~IsCreate(req[r], j)
                /\ res \notin {"pending", ERROR_CHANNEL_EXISTS, "ok"} =>
                     (last /\ req[r].pc = "failed" /\ ~StartedGame(req[r]))

\* C18 witness: after MaxNameTaken answers name_taken a creation succeeded
\* and the game was started.
C18_Witness ==
    \E r \in Reqs :
        /\ NameTaken(req[r]) = MaxNameTaken
        /\ req[r].pc = "done"
        /\ Len(req[r].enq) = 1

\* The answer to the user's invite lets provisioning go on: ok, or
\* cant_invite_self in development mode.
UserInvited(res) == res = "ok" \/ (res = "cant_invite_self" /\ mode = "dev")

\* C19: on the team_join path a game is started only after, as the last three
\* calls and in this order, the channel was created, the user was invited (ok,
\* or cant_invite_self in development mode) and the bot was invited with
\* success; the new-game envelope carries the id of the created channel.  Any
\* other failed invite ends the handler without a game.
C19_TeamJoinOrder ==
    \A r \in Reqs :
        req[r].kind = "team_join" =>
            LET q == req[r]
                n == Len(q.calls)
            IN  /\ StartedGame(q) =>
                     /\ n >= 4
                     /\ q.calls[n - 2].op = "createPrivateChannel"
                     /\ q.calls[n - 2].res = "ok"
                     /\ q.calls[n - 1] = [op |-> "invitePrivateChannel",
                                          args |-> <<CreatedChannelId, UserId>>,
                                          res |-> q.calls[n - 1].res]
                     /\ UserInvited(q.calls[n - 1].res)
                     /\ q.calls[n] = [op |-> "invitePrivateChannel",
                                      args |-> <<CreatedChannelId, BotId>>,
                                      res |-> "ok"]
                     /\ \A i \in DOMAIN q.enq :
                          q.enq[i] = [type |-> "new-game",
                                      payload |-> [uid |-> UserId, teamid |-> q.team,
                                                   channel |-> CreatedChannelId,
                                                   name |-> RealName, email |-> Email]]
                     /\ Len(q.enq) + q.lost = 1
                /\ \A i \in DOMAIN q.calls :
                     (q.calls[i].op = "invitePrivateChannel"
                        /\ q.calls[i].res # "pending"
                        /\ ~(q.calls[i].args[2] = UserId /\ UserInvited(q.calls[i].res))
                        /\ ~(q.calls[i].args[2] = BotId /\ q.calls[i].res = "ok")) =>
                        (i = n /\ q.pc = "failed" /\ ~StartedGame(q))

\* C19 witness: in development mode the user's invite answered
\* cant_invite_self, the bot was invited, and the game was started in the
\* created channel.
C19_Witness ==
    \E r \in Reqs :
        /\ req[r].kind = "team_join"
        /\ mode = "dev"
        /\ Len(req[r].enq) = 1
        /\ req[r].enq[1].payload.channel = CreatedChannelId
        /\ \E i \in DOMAIN req[r].calls : req[r].calls[i].res = "cant_invite_self"

\* The user of the game-start command has a game in another channel.
GameElsewhere(q) ==
    /\ q.kind = "chatandslash"
    /\ q.existing \in Bindings \ {"", q.channelId}

\* The membership check of the game-start command answered channel_not_found.
BotNotInvited(q) ==
    /\ q.kind = "chatandslash"
    /\ \E i \in DOMAIN q.calls :
         q.calls[i].op = "getConversationMembers" /\ q.calls[i].res = ERROR_NOT_IN_CHANNEL

C21_AckDelayZero ==
    /\ ackDelay = 0
    /\ \A m \in Msgs : h[m].pc \in {"timer", "acked"} => h[m].timerDelay = 0

\* C21 witness: both messages were acknowledged, the second one scheduled
\* after the first acknowledgment had written ackDelay.
C21_Witness ==
    /\ Len(ackLog) = NumMsgs
    /\ \A m \in Msgs : h[m].pc = "acked" => h[m].timerDelay = 0
    /\ \E m \in Msgs : h[m].pc = "acked"
    /\ ackDelay = 0

\* C22: no invocation of onConsume ends with an exception: whatever fails
\* while a message is handled, the failure was recovered or reported and the
\* promise onConsume returned is not rejected.
C22_NothingEscapesOnConsume ==
    \A m \in Msgs : ~h[m].escaped

\* C23: every session getSlack has returned to a caller is connected and
\* carries the autoStart flag of its workspace; and the cache holds a session
\* that is not connected only while the getSlack call that constructed it
\* awaits its connect, so that after a failed connect no entry is left.
C23_ReturnedSessionsReady ==
    /\ \A x \in Returned :
          /\ sessions[x.sid].connected
          /\ sessions[x.sid].autoStart = AutoStartOf(x.team)
    /\ \A t \in Teams :
          (slackClients[t] # 0 /\ ~sessions[slackClients[t]].connected) =>
              \E c \in Callers : gs[c].pc = "connect" /\ gs[c].sid = slackClients[t]

\* C24: the in-queue holds no new-game envelope for a user and workspace
\* that have a game channel in the characters table, whether the envelope
\* came from the game-start command or from a team_join event.
C24_NoGameForBoundUser ==
    \A i \in DOMAIN inQueue :
        inQueue[i].type = "new-game" =>
            GetCharacterChannel(inQueue[i].payload.uid, inQueue[i].payload.teamid) = ""

====
